---- MODULE Spec2Model ----
(***************************************************************************)
(* Ego Bust: the click game and its on-chain score/reward workflows.       *)
(*                                                                         *)
(* The repository holds several near-duplicate variants of one React       *)
(* component.  Its parts are modelled here, each under its own             *)
(* specification over the same variables:                                  *)
(*                                                                         *)
(*   Spec      the game loop of src/src/App.jsx (smart-account variant):   *)
(*             start / quit / pause, spawn, cleanup, countdown, bust.      *)
(*   SpecApp   the transaction workflows of src/src/App.jsx: gas options,  *)
(*             saveScoreAndAccumulate, claimRewards, transferFunds.        *)
(*   SpecFill  the workflows of src/unnamed/part_003 (Pimlico variant with *)
(*             auto-fill of the smart account and automatic retries).      *)
(*   SpecClaim the claim workflow of src/unnamed/part_003 on its own.      *)
(*   SpecCap   the game loop of src/src/App.jsx with enough object ids to  *)
(*             fill the object list to its cap.                            *)
(*   SpecTransfer  the wallet panel and transfer modal of src/src/App.jsx  *)
(*             with the transfers in both directions.                      *)
(*                                                                         *)
(* React semantics used throughout: a handler reads the state of the       *)
(* render it was created in (its closure); an async handler keeps that     *)
(* closure across its awaits; a state update followed by the effects whose *)
(* dependencies changed is one atomic step.                                *)
(***************************************************************************)
EXTENDS Integers, Sequences, FiniteSets, TLC

VARIABLES
    \* ---- game state (App.jsx 160-166)
    objects,          \* sequence of [id, spawnTime], in spawn order
    score,
    time,
    gameOver,
    gameStarted,
    paused,
    clickedObjects,   \* set of ids showing the pop effect
    scoreSaved,
    \* ---- environment of the game
    now,              \* Date.now(), in ms since the page was loaded
    popTimers,        \* pending setTimeout callbacks of bustObject, oldest first
    isConnected,      \* wagmi useAccount().isConnected
    ignoredBust,      \* history: the last bustObject call returned at its paused guard
    swept,            \* history: objects the last cleanup tick removed, -1 once the
                      \* clock has moved since that tick
    \* ---- web3 state (App.jsx 185-196); an account or client is modelled by
    \* whether it is set, MON amounts are in micro-MON (the six decimals
    \* loadAllBalances keeps), WMON amounts in 1/10000 WMON (its four decimals),
    \* pendingRewards in 1/100 WMON
    smartAccount,
    bundlerClient,
    monBalance,
    mainAccountMonBalance,
    wmonBalance,
    mainAccountWmonBalance,
    pendingRewards,
    isClaiming,
    isSavingScore,
    isTransferring,
    pendingTxHash,    \* <<>> for null, else the hash <<kind>> of a submission
    \* ---- gas options (App.jsx 174, 181-182)
    selectedGasSpeed,
    showCustomGas,
    customGasPrice,   \* the text of the custom gas input
    \* ---- transfer form (App.jsx 175-179)
    showTransferModal,
    transferAmount,   \* in the unit of transferType; 0 also stands for the empty text
    transferTo,       \* "", "main" (address) or "smart" (smartAccountAddress)
    transferType,
    transferDirection,
    \* ---- auto-fill (part_003 162-163)
    autoFillEnabled,
    isAutoFilling,
    \* ---- environment of the workflows
    calls,            \* handler invocations suspended at an await
    retryTimers,      \* pending setTimeout re-invocations, each with its closure
    addScoreOps       \* history: the addScore user operations that
                      \* sendUserOperation has accepted (it resolved with
                      \* their hash) since the last startGame, counted up to
                      \* MaxSaveOps

gameVars == <<objects, score, time, gameOver, gameStarted, paused, clickedObjects,
              scoreSaved, now, popTimers, isConnected, ignoredBust, swept>>

walletVars == <<smartAccount, bundlerClient, monBalance, mainAccountMonBalance,
                wmonBalance, mainAccountWmonBalance, pendingRewards>>

gasVars == <<selectedGasSpeed, showCustomGas, customGasPrice>>

formVars == <<showTransferModal, transferAmount, transferTo, transferType,
              transferDirection>>

opVars == <<isClaiming, isSavingScore, isTransferring, pendingTxHash, calls>>

fillVars == <<autoFillEnabled, isAutoFilling, retryTimers>>

histVars == <<addScoreOps>>

\* what the game loop never touches
txVars == <<walletVars, gasVars, formVars, opVars, fillVars, histVars>>

\* what the workflows never touch
playVars == <<score, paused, clickedObjects, now, popTimers, ignoredBust, swept>>

vars == <<gameVars, txVars>>

-----------------------------------------------------------------------------
(* Program constants of the game loop.                                     *)

INITIAL_TIME == 30
MAX_OBJECTS == 30
OBJECT_LIFETIME_MS == 1000
BUST_POINTS == 10

(* Bounds of the model.                                                    *)

MaxIds == 2          \* object ids alive at once (objects, pending pops)
MaxBusts == 2        \* busts counted per game before clicks stop being explored
MaxNow == 1000       \* the clock stops advancing here

Ids == 1..MaxIds
ClockSteps == {400, 600}   \* how far Date.now() moves between two observations

-----------------------------------------------------------------------------
(* Helpers                                                                 *)

Range(s) == {s[i] : i \in 1..Len(s)}

ObjectIds(objs) == {objs[i].id : i \in 1..Len(objs)}

\* variant: the effects do not return early on paused
Running_IgnoresPaused(started, over, isPaused) == started /\ ~over

\* the game-loop effects are active: none of them returned early
Running(started, over, isPaused) == started /\ ~over /\ ~isPaused

\* ids that no live object and no pending pop callback still refers to
FreeIds == Ids \ (ObjectIds(objects) \cup Range(popTimers))

\* Date.now() is unique per spawn at the clock's real resolution; the model's
\* clock is coarser, so the id is the least id not in use
FreshId == CHOOSE i \in FreeIds : \A j \in FreeIds : i <= j

\* gameAreaRef: the measured game area, or the base size when it is not mounted
GameAreas == {[w |-> 320, h |-> 384], [w |-> 0, h |-> 0]}

-----------------------------------------------------------------------------
(* The game loop (App.jsx 862-983)                                         *)

\* variant: no cap on the number of objects
spawnObject_NoCap(objs, area, id) ==
    IF area.w > 0 /\ area.h > 0
    THEN Append(objs, [id |-> id, spawnTime |-> now])
    ELSE objs

\* spawnObject: append a new object, dropping the oldest at the cap
spawnObject(objs, area, id) ==
    IF area.w > 0 /\ area.h > 0
    THEN LET newObj == [id |-> id, spawnTime |-> now]
         IN  IF Len(objs) >= MAX_OBJECTS
             THEN Append(Tail(objs), newObj)
             ELSE Append(objs, newObj)
    ELSE objs

\* a spawn needs an id of the model's pool; with none left only the
\* zero-size area (no object created) is explored
SpawnInto(objs, result) ==
    \E area \in GameAreas :
        /\ (area.w > 0 /\ area.h > 0) => FreeIds # {}
        /\ result = spawnObject(objs, area, IF FreeIds # {} THEN FreshId ELSE 0)

\* variant: an object is kept through the tick at which its age equals the lifetime
cleanupObjects_KeepsAtLifetime(objs, currentTime) ==
    SelectSeq(objs, LAMBDA obj : currentTime - obj.spawnTime <= OBJECT_LIFETIME_MS)

\* the cleanup interval's callback
cleanupObjects(objs, currentTime) ==
    SelectSeq(objs, LAMBDA obj : currentTime - obj.spawnTime < OBJECT_LIFETIME_MS)

\* variant: the paused guard is missing
bustObject_NoPausedGuard(id) ==
    /\ clickedObjects' = clickedObjects \cup {id}
    /\ popTimers' = Append(popTimers, id)

\* bustObject(id): the click handler of an object
bustObject(id) ==
    IF paused
    THEN UNCHANGED <<clickedObjects, popTimers>>
    ELSE /\ clickedObjects' = clickedObjects \cup {id}
         /\ popTimers' = Append(popTimers, id)

\* the callback bustObject scheduled 300 ms earlier
popCallback(id) ==
    /\ objects' = SelectSeq(objects, LAMBDA obj : obj.id # id)
    /\ clickedObjects' = clickedObjects \ {id}
    /\ score' = score + BUST_POINTS

\* variant: the countdown reaches 0 without ending the game
countdown_NoGameOver(t) ==
    /\ time' = t - 1
    /\ UNCHANGED <<gameOver, objects>>

\* the countdown effect's timeout callback, then the effect itself re-run
\* on the new time
countdown(t) ==
    /\ time' = t - 1
    /\ IF t - 1 > 0
       THEN UNCHANGED <<gameOver, objects>>
       ELSE gameOver' = TRUE /\ objects' = <<>>

\* variant: the wallet guard is missing
startGame_NoWalletGuard ==
    /\ gameStarted' = TRUE
    /\ gameOver' = FALSE
    /\ paused' = FALSE
    /\ score' = 0
    /\ time' = INITIAL_TIME
    /\ clickedObjects' = {}
    /\ scoreSaved' = FALSE
    /\ IF Running(gameStarted, gameOver, paused)
       THEN objects' = <<>>
       ELSE SpawnInto(<<>>, objects')

\* startGame, followed by the effects of the render it causes: the spawn
\* effect calls spawnObject() at once when the game loop (re)starts, and the
\* effect on gameStarted sets scoreSaved to false once more
startGame ==
    IF ~isConnected
    THEN UNCHANGED <<objects, score, time, gameOver, gameStarted, paused,
                     clickedObjects, scoreSaved>>
    ELSE /\ gameStarted' = TRUE
         /\ gameOver' = FALSE
         /\ paused' = FALSE
         /\ score' = 0
         /\ time' = INITIAL_TIME
         /\ clickedObjects' = {}
         /\ scoreSaved' = FALSE
         /\ IF Running(gameStarted, gameOver, paused)
            THEN objects' = <<>>
            ELSE SpawnInto(<<>>, objects')

\* variant: quitting leaves the objects on the board
quitGame_KeepsObjects ==
    /\ gameStarted' = FALSE
    /\ gameOver' = FALSE
    /\ paused' = FALSE
    /\ objects' = objects
    /\ clickedObjects' = {}
    /\ scoreSaved' = FALSE

quitGame ==
    /\ gameStarted' = FALSE
    /\ gameOver' = FALSE
    /\ paused' = FALSE
    /\ objects' = <<>>
    /\ clickedObjects' = {}
    /\ scoreSaved' = FALSE

\* togglePause, followed by the spawn effect when the game resumes
togglePause ==
    /\ paused' = ~paused
    /\ IF Running(gameStarted, gameOver, ~paused)
       THEN SpawnInto(objects, objects')
       ELSE UNCHANGED objects

-----------------------------------------------------------------------------
\* disconnectWallet: the state it resets
disconnectWallet ==
    /\ smartAccount' = FALSE
    /\ bundlerClient' = FALSE
    /\ wmonBalance' = 0
    /\ monBalance' = 0
    /\ mainAccountMonBalance' = 0
    /\ mainAccountWmonBalance' = 0
    /\ pendingRewards' = 0
    /\ scoreSaved' = FALSE
    /\ pendingTxHash' = <<>>
    /\ UNCHANGED <<isClaiming, isSavingScore, isTransferring, calls>>

-----------------------------------------------------------------------------
(* Actions of the game specification                                       *)

\* Start / Restart / Play Again: shown when no game runs (disabled without a
\* wallet) or when the game is over
StartGame ==
    /\ (~gameStarted /\ isConnected) \/ (gameStarted /\ gameOver)
    /\ startGame
    /\ ignoredBust' = FALSE
    /\ addScoreOps' = 0
    /\ UNCHANGED <<now, popTimers, isConnected, swept>>
    /\ UNCHANGED <<walletVars, gasVars, formVars, opVars, fillVars>>

QuitGame ==
    /\ gameStarted
    /\ quitGame
    /\ ignoredBust' = FALSE
    /\ UNCHANGED <<score, time, now, popTimers, isConnected, swept>>
    /\ UNCHANGED txVars

TogglePause ==
    /\ gameStarted /\ ~gameOver
    /\ togglePause
    /\ ignoredBust' = FALSE
    /\ UNCHANGED <<score, time, gameOver, gameStarted, clickedObjects, scoreSaved,
                   now, popTimers, isConnected, swept>>
    /\ UNCHANGED txVars

BustObject(id) ==
    /\ id \in ObjectIds(objects)
    /\ paused \/ score + BUST_POINTS * (Len(popTimers) + 1) <= BUST_POINTS * MaxBusts
    /\ bustObject(id)
    /\ ignoredBust' = paused
    /\ UNCHANGED <<objects, score, time, gameOver, gameStarted, paused, scoreSaved,
                   now, isConnected, swept>>
    /\ UNCHANGED txVars

PopTimeout ==
    /\ popTimers # <<>>
    /\ popCallback(Head(popTimers))
    /\ popTimers' = Tail(popTimers)
    /\ UNCHANGED <<time, gameOver, gameStarted, paused, scoreSaved, now,
                   isConnected, ignoredBust, swept>>
    /\ UNCHANGED txVars

SpawnTimer ==
    /\ Running(gameStarted, gameOver, paused)
    /\ SpawnInto(objects, objects')
    /\ UNCHANGED <<score, time, gameOver, gameStarted, paused, clickedObjects,
                   scoreSaved, now, popTimers, isConnected, ignoredBust, swept>>
    /\ UNCHANGED txVars

CleanupTimer ==
    /\ Running(gameStarted, gameOver, paused)
    /\ objects' = cleanupObjects(objects, now)
    /\ swept' = Len(objects) - Len(objects')
    /\ UNCHANGED <<score, time, gameOver, gameStarted, paused, clickedObjects,
                   scoreSaved, now, popTimers, isConnected, ignoredBust>>
    /\ UNCHANGED txVars

CountdownTimer ==
    /\ Running(gameStarted, gameOver, paused)
    /\ time > 0
    /\ countdown(time)
    /\ UNCHANGED <<score, gameStarted, paused, clickedObjects, scoreSaved, now,
                   popTimers, isConnected, ignoredBust, swept>>
    /\ UNCHANGED txVars

Tick ==
    \E d \in ClockSteps :
        /\ now + d <= MaxNow
        /\ now' = now + d
        /\ swept' = -1
        /\ UNCHANGED <<objects, score, time, gameOver, gameStarted, paused,
                       clickedObjects, scoreSaved, popTimers, isConnected, ignoredBust>>
        /\ UNCHANGED txVars

ConnectWallet ==
    /\ ~isConnected
    /\ isConnected' = TRUE
    /\ UNCHANGED <<objects, score, time, gameOver, gameStarted, paused,
                   clickedObjects, scoreSaved, now, popTimers, ignoredBust, swept>>
    /\ UNCHANGED txVars

DisconnectWallet ==
    /\ isConnected
    /\ isConnected' = FALSE
    /\ disconnectWallet
    /\ UNCHANGED <<objects, score, time, gameOver, gameStarted, paused,
                   clickedObjects, now, popTimers, ignoredBust, swept>>
    /\ UNCHANGED <<gasVars, histVars, formVars, fillVars>>

Init ==
    /\ objects = <<>>
    /\ score = 0
    /\ time = INITIAL_TIME
    /\ gameOver = FALSE
    /\ gameStarted = FALSE
    /\ paused = FALSE
    /\ clickedObjects = {}
    /\ scoreSaved = FALSE
    /\ now = 0
    /\ popTimers = <<>>
    /\ isConnected = FALSE
    /\ ignoredBust = FALSE
    /\ swept = -1
    /\ smartAccount = FALSE
    /\ bundlerClient = FALSE
    /\ monBalance = 0
    /\ mainAccountMonBalance = 0
    /\ wmonBalance = 0
    /\ mainAccountWmonBalance = 0
    /\ pendingRewards = 0
    /\ isClaiming = FALSE
    /\ isSavingScore = FALSE
    /\ isTransferring = FALSE
    /\ pendingTxHash = <<>>
    /\ selectedGasSpeed = "low"
    /\ showCustomGas = FALSE
    /\ customGasPrice = ""
    /\ showTransferModal = FALSE
    /\ transferAmount = 0
    /\ transferTo = ""
    /\ transferType = "MON"
    /\ transferDirection = "toSmart"
    /\ autoFillEnabled = TRUE
    /\ isAutoFilling = FALSE
    /\ calls = {}
    /\ retryTimers = {}
    /\ addScoreOps = 0

Next ==
    \/ StartGame
    \/ QuitGame
    \/ TogglePause
    \/ \E id \in Ids : BustObject(id)
    \/ PopTimeout
    \/ SpawnTimer
    \/ CleanupTimer
    \/ CountdownTimer
    \/ Tick
    \/ ConnectWallet
    \/ DisconnectWallet

Spec == Init /\ [][Next]_vars

-----------------------------------------------------------------------------
(* Claims about the game loop                                              *)

\* C2: a bustObject call made while the game is paused changes nothing:
\* score, objects and clickedObjects stay as they are and no delayed
\* removal/score callback is scheduled.
C2_BustWhilePausedIsNoOp ==
    [][\A id \in Ids :
          (paused /\ BustObject(id)) =>
              UNCHANGED <<score, objects, clickedObjects, popTimers>>]_vars

\* an object was clicked while the game was paused
C2_Witness == paused /\ ignoredBust /\ objects # <<>>

Age(obj) == now - obj.spawnTime

\* C3: in a running game a cleanup tick removes exactly the objects whose
\* age (now - spawnTime, wall-clock, pauses included) has reached 1000 ms:
\* right after a tick no object that old is left, and a tick never removes a
\* younger object.
C3_ExpiryAtLifetime ==
    /\ [](swept >= 0 => \A obj \in Range(objects) : Age(obj) < OBJECT_LIFETIME_MS)
    /\ [][CleanupTimer =>
            \A obj \in Range(objects) :
                Age(obj) < OBJECT_LIFETIME_MS => obj \in Range(objects')]_vars

\* a cleanup tick has just removed an expired object
C3_Witness == swept >= 1

\* C4: startGame sets time to 30; time changes only by a countdown firing in
\* a running game, which takes exactly 1 off, or by startGame; time stays in
\* 0..30; a started game whose time is 0 is over and has no objects.
C4_Countdown ==
    /\ [](time \in 0..INITIAL_TIME)
    /\ []((gameStarted /\ time = 0) => (gameOver /\ objects = <<>>))
    /\ [][/\ (StartGame /\ isConnected) => time' = INITIAL_TIME
          /\ CountdownTimer => time' = time - 1
          /\ time' # time =>
                \/ Running(gameStarted, gameOver, paused) /\ time' = time - 1
                \/ gameStarted' /\ ~gameOver' /\ time' = INITIAL_TIME]_vars

\* the countdown ran out and ended the game
C4_Witness == gameStarted /\ gameOver /\ time = 0

-----------------------------------------------------------------------------
(* Wallet, balances and gas options of src/src/App.jsx.                    *)
(* Gas prices are in milli-gwei (10^6 wei), gas requirements in nano-MON   *)
(* (10^9 wei), token amounts in millionths of a token.                     *)

GAS_SPEED_OPTIONS ==
    [standard |-> [maxFeePerGas |-> 9000, maxPriorityFeePerGas |-> 9000],
     low |-> [maxFeePerGas |-> 10000, maxPriorityFeePerGas |-> 10000],
     high |-> [maxFeePerGas |-> 100000, maxPriorityFeePerGas |-> 100000]]

GAS_ESTIMATE == 200000

\* texts given to the custom gas input (type="number": empty or numeric)
CustomGasInputs == {"", "0.4", "5"}

\* parseFloat of a non-empty text of the custom gas input, in milli-gwei
parseFloat(text) ==
    CASE text = "0" -> 0
      [] text = "0.4" -> 400
      [] text = "5" -> 5000

\* parseEther((customGwei / 1e9).toFixed(9)): the nine decimals of a MON
\* amount are whole gwei, so the price is rounded to the nearest gwei
customGweiToWei(customGwei) == ((customGwei + 500) \div 1000) * 1000

\* getCurrentGasOptions() of the current render
getCurrentGasOptions ==
    IF showCustomGas /\ customGasPrice # "" /\ parseFloat(customGasPrice) > 0
    THEN [maxFeePerGas |-> customGweiToWei(parseFloat(customGasPrice)),
          maxPriorityFeePerGas |-> customGweiToWei(parseFloat(customGasPrice))]
    ELSE GAS_SPEED_OPTIONS[selectedGasSpeed]

\* variant: the gas buffer is left out
calculateRequiredGas_NoBuffer(gasOptions) ==
    gasOptions.maxFeePerGas * (GAS_ESTIMATE \div 1000)

\* calculateRequiredGas(gasOptions), in nano-MON
calculateRequiredGas(gasOptions) ==
    LET baseGasCost == gasOptions.maxFeePerGas * (GAS_ESTIMATE \div 1000)
    IN  (baseGasCost * 12) \div 10

\* parseFloat(monBalance) < requiredGas
GasShort(requiredGas) == monBalance * 1000 < requiredGas

\* what the chain returns to loadAllBalances
LoadedBalances ==
    {[main |-> 0,     mainWmon |-> 0,     smart |-> 2399,  smartWmon |-> 0],
     [main |-> 12000, mainWmon |-> 20000, smart |-> 2400,  smartWmon |-> 0],
     [main |-> 50000, mainWmon |-> 0,     smart |-> 12000, smartWmon |-> 30000]}

\* what the reward contract returns to loadPlayerStats, in 1/100 WMON
LoadedRewards == {0, 100}

loadAllBalances(b) ==
    /\ mainAccountMonBalance' = b.main
    /\ mainAccountWmonBalance' = b.mainWmon
    /\ monBalance' = b.smart
    /\ wmonBalance' = b.smartWmon

\* the effect that initializes the smart account once the wallet is connected
InitializeSmartAccount ==
    /\ isConnected /\ ~smartAccount
    /\ bundlerClient' = TRUE
    /\ smartAccount' = TRUE
    /\ UNCHANGED <<monBalance, mainAccountMonBalance, wmonBalance,
                   mainAccountWmonBalance, pendingRewards>>
    /\ UNCHANGED <<gameVars, gasVars, histVars, formVars, opVars, fillVars>>

\* a loadAllBalances call (of the initialization, a save, a claim or the
\* timer after a transfer) completes
LoadAllBalances ==
    /\ smartAccount
    /\ \E b \in LoadedBalances : loadAllBalances(b)
    /\ UNCHANGED <<smartAccount, bundlerClient, pendingRewards>>
    /\ UNCHANGED <<gameVars, gasVars, histVars, formVars, opVars, fillVars>>

\* a loadPlayerStats call completes
LoadPlayerStats ==
    /\ smartAccount
    /\ \E r \in LoadedRewards : pendingRewards' = r
    /\ UNCHANGED <<smartAccount, bundlerClient, monBalance, mainAccountMonBalance,
                   wmonBalance, mainAccountWmonBalance>>
    /\ UNCHANGED <<gameVars, gasVars, histVars, formVars, opVars, fillVars>>

\* a preset of the gas selector is clicked
SelectGasPreset(key) ==
    /\ selectedGasSpeed' = key
    /\ showCustomGas' = FALSE
    /\ UNCHANGED customGasPrice
    /\ UNCHANGED <<gameVars, walletVars, formVars, opVars, fillVars, histVars>>

\* the Use Custom button of the gas selector
ToggleCustomGas ==
    /\ showCustomGas' = ~showCustomGas
    /\ UNCHANGED <<selectedGasSpeed, customGasPrice>>
    /\ UNCHANGED <<gameVars, walletVars, formVars, opVars, fillVars, histVars>>

\* the custom gas input is edited
SetCustomGasPrice(text) ==
    /\ customGasPrice' = text
    /\ UNCHANGED <<selectedGasSpeed, showCustomGas>>
    /\ UNCHANGED <<gameVars, walletVars, formVars, opVars, fillVars, histVars>>

\* the countdown runs out: its firings before the last only lower time, the
\* last one is countdown(1); nothing else happens in between
CountdownRunsOut ==
    /\ Running(gameStarted, gameOver, paused)
    /\ time > 0
    /\ countdown(1)
    /\ UNCHANGED <<gameStarted, scoreSaved, isConnected, playVars, txVars>>

-----------------------------------------------------------------------------
(* Handler invocations of src/src/App.jsx.  A handler runs up to its first *)
(* await in the step of the click; there it leaves a call record, and each *)
(* later step resumes one record where its promise settles.                *)

MaxCalls == 3        \* handler invocations suspended at once

\* a further handler can be suspended
CallRoom == Cardinality(calls) < MaxCalls

\* the hash a submission of call c resolves to
Hash(c) == <<c.kind>>

\* a handler suspended at pc: "send" awaits bundlerClient.sendUserOperation
\* for the user operation with the two gas fields, "walletSend" awaits
\* walletClient.sendTransaction, "receipt" awaits
\* waitForUserOperationReceipt, "reload" awaits the loads after a
\* confirmation
NewCall(kind, pc, gasOptions) ==
    [kind |-> kind, pc |-> pc,
     maxFeePerGas |-> gasOptions.maxFeePerGas,
     maxPriorityFeePerGas |-> gasOptions.maxPriorityFeePerGas]

NoGas == [maxFeePerGas |-> 0, maxPriorityFeePerGas |-> 0]

\* call c past its submission, suspended at pc
Resumed(c, pc) == (calls \ {c}) \cup {NewCall(c.kind, pc, NoGas)}

MaxSaveOps == 2      \* addScore user operations counted per game

\* sendUserOperation resolves for an addScore user operation: a save goes
\* on to await its receipt
AddScoreSent == \E c \in calls' \ calls : c.kind = "save" /\ c.pc = "receipt"

\* addScoreOps over a step of a workflow
CountAddScore ==
    addScoreOps' = IF AddScoreSent /\ addScoreOps < MaxSaveOps
                   THEN addScoreOps + 1
                   ELSE addScoreOps

\* saveScoreAndAccumulate up to sendUserOperation; setIsSavingScore(true)
\* followed by the finally block in the same step leaves false
saveScoreAndAccumulate ==
    IF ~smartAccount \/ scoreSaved
    THEN UNCHANGED <<isSavingScore, calls>>
    ELSE IF ~bundlerClient \/ GasShort(calculateRequiredGas(getCurrentGasOptions))
    THEN /\ isSavingScore' = FALSE
         /\ UNCHANGED calls
    ELSE /\ isSavingScore' = TRUE
         /\ calls' = calls \cup
                {NewCall("save", "send", getCurrentGasOptions)}

\* claimRewards up to sendUserOperation
claimRewards ==
    IF ~smartAccount \/ pendingRewards < 100
    THEN UNCHANGED <<isClaiming, calls>>
    ELSE IF ~bundlerClient \/ GasShort(calculateRequiredGas(getCurrentGasOptions))
    THEN /\ isClaiming' = FALSE
         /\ UNCHANGED calls
    ELSE /\ isClaiming' = TRUE
         /\ calls' = calls \cup
                {NewCall("claim", "send", getCurrentGasOptions)}

\* the balance transferFunds compares the amount with
SourceBalance(direction, type) ==
    IF direction = "toSmart"
    THEN (IF type = "MON" THEN mainAccountMonBalance ELSE mainAccountWmonBalance)
    ELSE (IF type = "MON" THEN monBalance ELSE wmonBalance)

\* transferFunds up to its first await
transferFunds ==
    IF transferAmount = 0 \/ transferTo = "" \/ ~smartAccount
    THEN UNCHANGED <<isTransferring, calls>>
    ELSE IF \/ transferDirection = "toMain" /\ ~bundlerClient
            \/ transferAmount > SourceBalance(transferDirection, transferType)
            \/ /\ transferDirection = "toMain"
               /\ GasShort(calculateRequiredGas(getCurrentGasOptions))
    THEN /\ isTransferring' = FALSE
         /\ UNCHANGED calls
    ELSE /\ isTransferring' = TRUE
         /\ calls' = calls \cup
                {IF transferDirection = "toSmart"
                 THEN NewCall("transfer", "walletSend", NoGas)
                 ELSE NewCall("transfer", "send", getCurrentGasOptions)}

\* the amount a quick transfer button puts into the form
quickAmount(type, monAvailable, wmonAvailable) ==
    IF type = "MON"
    THEN (IF monAvailable - 10000 > 0 THEN monAvailable - 10000 ELSE monAvailable)
    ELSE wmonAvailable

quickTransferToSmart(type) ==
    IF ~smartAccount
    THEN UNCHANGED formVars
    ELSE /\ transferDirection' = "toSmart"
         /\ transferType' = type
         /\ transferTo' = "smart"
         /\ transferAmount' = quickAmount(type, mainAccountMonBalance,
                                          mainAccountWmonBalance)
         /\ showTransferModal' = TRUE

quickTransferToMain(type) ==
    IF ~isConnected
    THEN UNCHANGED formVars
    ELSE /\ transferDirection' = "toMain"
         /\ transferType' = type
         /\ transferTo' = "main"
         /\ transferAmount' = quickAmount(type, monBalance, wmonBalance)
         /\ showTransferModal' = TRUE

-----------------------------------------------------------------------------
(* Actions of the workflow specification of src/src/App.jsx                *)

\* the game state a workflow step leaves alone (all of it but scoreSaved)
gameRest == <<objects, time, gameOver, gameStarted, isConnected, playVars>>

\* the form after a transfer: amount and address cleared, modal closed
formReset ==
    /\ transferAmount' = 0
    /\ transferTo' = ""
    /\ showTransferModal' = FALSE
    /\ UNCHANGED <<transferType, transferDirection>>

\* Save Score: rendered when the game is over and its score not saved,
\* disabled while a save is in progress
SaveScore ==
    /\ gameOver /\ ~scoreSaved /\ ~isSavingScore
    /\ CallRoom
    /\ saveScoreAndAccumulate
    /\ UNCHANGED <<scoreSaved, pendingTxHash, isClaiming, isTransferring>>
    /\ UNCHANGED <<gameRest, walletVars, gasVars, histVars, formVars, fillVars>>

\* sendUserOperation of a save resolves: setPendingTxHash(userOperationHash)
SaveSubmitted ==
    \E c \in calls :
        /\ c.kind = "save" /\ c.pc = "send"
        /\ pendingTxHash' = Hash(c)
        /\ calls' = Resumed(c, "receipt")
        /\ CountAddScore
        /\ UNCHANGED <<scoreSaved, isSavingScore, isClaiming, isTransferring>>
        /\ UNCHANGED <<gameRest, walletVars, gasVars, formVars, fillVars>>

\* waitForUserOperationReceipt of a save resolves
SaveConfirmed ==
    \E c \in calls :
        /\ c.kind = "save" /\ c.pc = "receipt"
        /\ scoreSaved' = TRUE
        /\ pendingTxHash' = <<>>
        /\ calls' = Resumed(c, "reload")
        /\ UNCHANGED <<isSavingScore, isClaiming, isTransferring>>
        /\ UNCHANGED <<gameRest, walletVars, gasVars, histVars, formVars, fillVars>>

\* the loads after the confirmation are through: alert, then finally
SaveFinished ==
    \E c \in calls :
        /\ c.kind = "save" /\ c.pc = "reload"
        /\ isSavingScore' = FALSE
        /\ calls' = calls \ {c}
        /\ UNCHANGED <<scoreSaved, pendingTxHash, isClaiming, isTransferring>>
        /\ UNCHANGED <<gameRest, walletVars, gasVars, histVars, formVars, fillVars>>

\* variant: the failure path clears the pending hash as the success path does
SaveFailed_ClearsHash ==
    \E c \in calls :
        /\ c.kind = "save" /\ c.pc \in {"send", "receipt"}
        /\ isSavingScore' = FALSE
        /\ pendingTxHash' = <<>>
        /\ calls' = calls \ {c}
        /\ UNCHANGED <<scoreSaved, isClaiming, isTransferring>>
        /\ UNCHANGED <<gameRest, walletVars, gasVars, histVars, formVars, fillVars>>

\* sendUserOperation or waitForUserOperationReceipt of a save rejects
\* (timeout, insufficient funds, anything else): catch, then finally
SaveFailed ==
    \E c \in calls :
        /\ c.kind = "save" /\ c.pc \in {"send", "receipt"}
        /\ isSavingScore' = FALSE
        /\ calls' = calls \ {c}
        /\ UNCHANGED <<scoreSaved, pendingTxHash, isClaiming, isTransferring>>
        /\ UNCHANGED <<gameRest, walletVars, gasVars, histVars, formVars, fillVars>>

\* Claim: disabled while a claim is in progress.  The button is rendered
\* from 1 WMON of pending rewards on; the handler is taken here for every
\* loaded value, so that its own minimum check is met as well
ClaimRewards ==
    /\ ~isClaiming
    /\ CallRoom
    /\ claimRewards
    /\ UNCHANGED <<scoreSaved, pendingTxHash, isSavingScore, isTransferring>>
    /\ UNCHANGED <<gameRest, walletVars, gasVars, histVars, formVars, fillVars>>

\* a claim sets no state between its submission and its finally block:
\* sendUserOperation, the receipt and the loads after it all resolve
ClaimFinished ==
    \E c \in calls :
        /\ c.kind = "claim" /\ c.pc = "send"
        /\ isClaiming' = FALSE
        /\ calls' = calls \ {c}
        /\ UNCHANGED <<scoreSaved, pendingTxHash, isSavingScore, isTransferring>>
        /\ UNCHANGED <<gameRest, walletVars, gasVars, histVars, formVars, fillVars>>

ClaimFailed ==
    \E c \in calls :
        /\ c.kind = "claim" /\ c.pc = "send"
        /\ isClaiming' = FALSE
        /\ calls' = calls \ {c}
        /\ UNCHANGED <<scoreSaved, pendingTxHash, isSavingScore, isTransferring>>
        /\ UNCHANGED <<gameRest, walletVars, gasVars, histVars, formVars, fillVars>>

\* the quick transfer buttons of the wallet panel, disabled at 0.01 MON or
\* less (MON) and at no WMON (WMON)
QuickTransferToSmart(type) ==
    /\ isConnected
    /\ IF type = "MON" THEN mainAccountMonBalance > 10000
                       ELSE mainAccountWmonBalance > 0
    /\ quickTransferToSmart(type)
    /\ UNCHANGED <<gameVars, walletVars, gasVars, histVars, opVars, fillVars>>

QuickTransferToMain(type) ==
    /\ isConnected
    /\ IF type = "MON" THEN monBalance > 10000 ELSE wmonBalance > 0
    /\ quickTransferToMain(type)
    /\ UNCHANGED <<gameVars, walletVars, gasVars, histVars, opVars, fillVars>>

\* Transfer button of the modal, disabled while a transfer is in progress
\* and without amount or address
TransferFunds ==
    /\ showTransferModal
    /\ ~isTransferring /\ transferAmount # 0 /\ transferTo # ""
    /\ CallRoom
    /\ transferFunds
    /\ UNCHANGED <<scoreSaved, pendingTxHash, isSavingScore, isClaiming>>
    /\ UNCHANGED <<gameRest, walletVars, gasVars, histVars, formVars, fillVars>>

\* walletClient.sendTransaction of a transfer to the smart account resolves
TransferSent ==
    \E c \in calls :
        /\ c.kind = "transfer" /\ c.pc = "walletSend"
        /\ pendingTxHash' = Hash(c)
        /\ formReset
        /\ isTransferring' = FALSE
        /\ calls' = calls \ {c}
        /\ UNCHANGED <<scoreSaved, isSavingScore, isClaiming>>
        /\ UNCHANGED <<gameRest, walletVars, gasVars, histVars, fillVars>>

\* sendUserOperation of a transfer to the main wallet resolves
TransferSubmitted ==
    \E c \in calls :
        /\ c.kind = "transfer" /\ c.pc = "send"
        /\ pendingTxHash' = Hash(c)
        /\ calls' = Resumed(c, "receipt")
        /\ UNCHANGED <<scoreSaved, isSavingScore, isClaiming, isTransferring>>
        /\ UNCHANGED <<gameRest, walletVars, gasVars, histVars, formVars, fillVars>>

TransferConfirmed ==
    \E c \in calls :
        /\ c.kind = "transfer" /\ c.pc = "receipt"
        /\ formReset
        /\ isTransferring' = FALSE
        /\ calls' = calls \ {c}
        /\ UNCHANGED <<scoreSaved, pendingTxHash, isSavingScore, isClaiming>>
        /\ UNCHANGED <<gameRest, walletVars, gasVars, histVars, fillVars>>

TransferFailed ==
    \E c \in calls :
        /\ c.kind = "transfer" /\ c.pc \in {"walletSend", "send", "receipt"}
        /\ isTransferring' = FALSE
        /\ calls' = calls \ {c}
        /\ UNCHANGED <<scoreSaved, pendingTxHash, isSavingScore, isClaiming>>
        /\ UNCHANGED <<gameRest, walletVars, gasVars, histVars, formVars, fillVars>>

\* The workflows with transfers out of the smart account; the transfers
\* into it (QuickTransferToSmart, TransferSent) send no user operation and
\* are left to the specification that is about them.
NextApp ==
    \/ StartGame
    \/ CountdownRunsOut
    \/ ConnectWallet
    \/ DisconnectWallet
    \/ InitializeSmartAccount
    \/ LoadAllBalances
    \/ LoadPlayerStats
    \/ \E key \in DOMAIN GAS_SPEED_OPTIONS : SelectGasPreset(key)
    \/ ToggleCustomGas
    \/ \E text \in CustomGasInputs : SetCustomGasPrice(text)
    \/ SaveScore
    \/ SaveSubmitted
    \/ SaveConfirmed
    \/ SaveFinished
    \/ SaveFailed
    \/ ClaimRewards
    \/ ClaimFinished
    \/ ClaimFailed
    \/ \E type \in {"MON", "WMON"} : QuickTransferToMain(type)
    \/ TransferFunds
    \/ TransferSubmitted
    \/ TransferConfirmed
    \/ TransferFailed

SpecApp == Init /\ [][NextApp]_vars

-----------------------------------------------------------------------------
(* Claims about the workflows of src/src/App.jsx                           *)

\* the user operations a step hands to bundlerClient.sendUserOperation
Submissions == {c \in calls' : c.pc = "send"} \ calls

\* maxFeePerGas (in MON) x 200000 x 1.2 for the current gas options, in nano-MON
StatedRequiredGas == (getCurrentGasOptions.maxFeePerGas * 200 * 12) \div 10

\* C5: while the loaded smart-account balance is below the required gas of
\* the current gas options, no step calls sendUserOperation, and a click on
\* Save Score, Claim or Transfer leaves scoreSaved and pendingTxHash as
\* they are.
C5_NoUserOperationWhenGasShort ==
    [][monBalance * 1000 < StatedRequiredGas =>
          /\ Submissions = {}
          /\ (SaveScore \/ ClaimRewards \/ TransferFunds) =>
                 UNCHANGED <<scoreSaved, pendingTxHash>>]_vars

\* Save Score, Claim and a transfer to the main wallet can all be clicked
\* and only the gas check stops them
C5_Witness ==
    /\ smartAccount /\ bundlerClient
    /\ monBalance * 1000 < StatedRequiredGas
    /\ gameOver /\ ~scoreSaved /\ ~isSavingScore
    /\ pendingRewards >= 100 /\ ~isClaiming
    /\ showTransferModal /\ ~isTransferring /\ transferDirection = "toMain"
    /\ transferAmount > 0 /\ transferAmount <= monBalance

\* a save whose submission resolved and whose receipt is awaited
SaveAwaitsReceipt == \E c \in calls : c.kind = "save" /\ c.pc = "receipt"

C9_AppNoClaimBelowMinimum ==
    /\ [][(pendingRewards < 100 /\ ClaimRewards) =>
            UNCHANGED <<calls, isClaiming, pendingTxHash>>]_vars
    /\ [][\A c \in Submissions : c.kind = "claim" => pendingRewards >= 100]_vars
    /\ [](isClaiming => \E c \in calls : c.kind = "claim")

\* the gas price the gas selector shows for the current options, in milli-gwei
StatedGasPrice ==
    IF showCustomGas /\ customGasPrice # "" /\ parseFloat(customGasPrice) > 0
    THEN parseFloat(customGasPrice)
    ELSE GAS_SPEED_OPTIONS[selectedGasSpeed].maxFeePerGas

\* C10: every user operation carries, in both gas fields, the custom price
\* when custom mode is on with a price above 0, else the selected preset's.
C10_OperationsCarryCurrentGas ==
    [][\A c \in Submissions :
          /\ c.maxFeePerGas = StatedGasPrice
          /\ c.maxPriorityFeePerGas = StatedGasPrice]_vars

-----------------------------------------------------------------------------
(* src/unnamed/part_003: gas prices from Pimlico, auto-fill of the smart   *)
(* account from the main wallet, automatic retries.  Gas prices are in     *)
(* milli-gwei, which is 10^6 wei, gas requirements in nano-MON, balances   *)
(* and transfer values in micro-MON.                                       *)

\* the gwei of GAS_SPEED_OPTIONS, in milli-gwei
GAS_SPEED_GWEI == [standard |-> 9000, low |-> 10000, high |-> 100000]

WORKFLOW_GAS == 250000   \* estimatedGas of a save and of a claim

MaxChains == 2       \* user operations under way at once (calls and retry timers)
MaxFills == 2        \* auto-fill transfers counted per user-initiated operation
MaxRetries == 2      \* re-invocations counted per user-initiated operation

\* maxFeePerGas of pimlico_getUserOperationGasPrice; 0 stands for no quote
\* (the request failed or had no usable shape)
PimlicoQuotes == {0, 1001}

\* what the chain returns to loadAllBalances
FillBalances ==
    {[main |-> 330,  mainWmon |-> 0, smart |-> 0,    smartWmon |-> 0],
     [main |-> 3300, mainWmon |-> 0, smart |-> 0,    smartWmon |-> 0],
     [main |-> 3300, mainWmon |-> 0, smart |-> 3000, smartWmon |-> 0]}

\* messages of a rejected sendUserOperation, by the branch of the catch block
SendErrors == {"insufficient funds", "other"}

\* BigInt(Math.round(n * 1e9)): the rounding is to whole wei, below the unit
\* both sides are counted in
gweiToWeiBigInt(gwei) == gwei

\* Number(weiBigInt) / 1e9
weiBigIntToGweiNumber(weiBigInt) == weiBigInt

\* getCurrentGasOptions().gwei of the current render; Number(customGasPrice)
\* is parseFloat of it on the texts of a numeric input
getCurrentGasGwei ==
    IF showCustomGas /\ customGasPrice # "" /\ parseFloat(customGasPrice) > 0
    THEN parseFloat(customGasPrice)
    ELSE GAS_SPEED_GWEI[selectedGasSpeed]

\* calculateRequiredGasMON({gwei}, estimatedGas), in nano-MON
calculateRequiredGasMON(gwei, estimatedGas) ==
    (gwei * (estimatedGas \div 1000) * 12) \div 10

\* Number((requiredGasMON * 1.1).toFixed(6)), in micro-MON
transferAmountMON(requiredGasMON) == (requiredGasMON * 11 + 5000) \div 10000

\* what the handlers created in the current render read of its state
Closure ==
    [smartAccount |-> smartAccount, bundlerClient |-> bundlerClient,
     scoreSaved |-> scoreSaved, pendingRewards |-> pendingRewards,
     monBalance |-> monBalance,
     mainAccountMonBalance |-> mainAccountMonBalance,
     autoFillEnabled |-> autoFillEnabled, isAutoFilling |-> isAutoFilling,
     gwei |-> getCurrentGasGwei]

\* variant: the main wallet's balance is not compared with the transfer
autoFillGasIfNeeded_NoMainCheck(env, requiredGasMON) ==
    IF ~env.autoFillEnabled
    THEN [result |-> "false", value |-> 0, touched |-> FALSE]
    ELSE IF env.monBalance * 1000 >= requiredGasMON
    THEN [result |-> "true", value |-> 0, touched |-> FALSE]
    ELSE [result |-> "send", value |-> transferAmountMON(requiredGasMON),
          touched |-> TRUE]

\* autoFillGasIfNeeded(requiredGasMON) in closure env, up to sendTransaction:
\* what it returns there ("send": it calls walletClient.sendTransaction with
\* the value), and whether it has set isAutoFilling
autoFillGasIfNeeded(env, requiredGasMON) ==
    IF ~env.autoFillEnabled
    THEN [result |-> "false", value |-> 0, touched |-> FALSE]
    ELSE IF env.monBalance * 1000 >= requiredGasMON
    THEN [result |-> "true", value |-> 0, touched |-> FALSE]
    ELSE IF env.mainAccountMonBalance < transferAmountMON(requiredGasMON)
    THEN [result |-> "false", value |-> 0, touched |-> TRUE]
    ELSE [result |-> "send", value |-> transferAmountMON(requiredGasMON),
          touched |-> TRUE]

-----------------------------------------------------------------------------
(* Handler invocations of src/unnamed/part_003.  A call record holds the   *)
(* closure env of the invocation; a retry timer re-invokes the handler of  *)
(* the same closure.  fills and retries count the auto-fill transfers and  *)
(* the re-invocations since the click the invocation goes back to; stale   *)
(* tells whether the state had the condition of the handler's guard when   *)
(* the invocation was made (scoreSaved true for a save, pendingRewards     *)
(* below 1 WMON for a claim).                                              *)

\* a further user operation can be under way
ChainRoom == Cardinality(calls) + Cardinality(retryTimers) < MaxChains

\* an invocation suspended at await fetchPimlicoGasPrice()
Invocation(kind, env, fills, retries, stale) ==
    [kind |-> kind, pc |-> "fetchGas", env |-> env, path |-> "pre",
     fee |-> 0, required |-> 0, value |-> 0, to |-> "",
     fills |-> fills, retries |-> retries, stale |-> stale]

\* setIsSavingScore / setIsClaiming of the handler of this kind
SetBusy(kind, busy) ==
    IF kind = "save"
    THEN isSavingScore' = busy /\ UNCHANGED isClaiming
    ELSE isClaiming' = busy /\ UNCHANGED isSavingScore

\* call c returns: its finally block
Returned(c) ==
    /\ calls' = calls \ {c}
    /\ SetBusy(c.kind, FALSE)
    /\ UNCHANGED retryTimers

\* call c goes on to its next await as record d
Suspended(c, d) ==
    /\ calls' = (calls \ {c}) \cup {d}
    /\ UNCHANGED <<isSavingScore, isClaiming, retryTimers>>

\* setTimeout(<the handler of this closure>, 2000); return; finally
RetryScheduled(c) ==
    /\ retryTimers' = retryTimers \cup
          {[kind |-> c.kind, env |-> c.env, fills |-> c.fills,
            retries |-> c.retries]}
    /\ calls' = calls \ {c}
    /\ SetBusy(c.kind, FALSE)

\* autoFillGasIfNeeded has returned true to call c: before the submission
\* (path "pre") the user operation with maxFeePerGas fee is sent, in the
\* catch block (path "catch") the retry is scheduled
AutoFilled(c, path, fee) ==
    IF path = "pre"
    THEN Suspended(c, [c EXCEPT !.pc = "send", !.path = "pre", !.fee = fee,
                                !.required = 0, !.value = 0, !.to = ""])
    ELSE RetryScheduled(c)

\* call c calls autoFillGasIfNeeded(requiredGasMON)
AutoFillCalled(c, path, fee, requiredGasMON) ==
    LET fill == autoFillGasIfNeeded(c.env, requiredGasMON)
    IN  /\ isAutoFilling' = (IF fill.result = "send" THEN TRUE
                             ELSE IF fill.touched THEN FALSE
                             ELSE isAutoFilling)
        /\ CASE fill.result = "send" ->
                  /\ c.fills < MaxFills
                  /\ Suspended(c, [c EXCEPT !.pc = "fillSend", !.path = path,
                                            !.fee = fee,
                                            !.required = requiredGasMON,
                                            !.value = fill.value,
                                            !.to = "smart"])
             [] fill.result = "true" -> AutoFilled(c, path, fee)
             [] fill.result = "false" -> Returned(c)

\* saveScoreAndAccumulate of closure env, up to await fetchPimlicoGasPrice()
saveScoreAndAccumulate_Pimlico(env, fills, retries) ==
    IF ~env.smartAccount \/ env.scoreSaved
    THEN UNCHANGED <<isSavingScore, calls>>
    ELSE IF ~env.bundlerClient
    THEN /\ isSavingScore' = FALSE
         /\ UNCHANGED calls
    ELSE /\ isSavingScore' = TRUE
         /\ calls' = calls \cup
                {Invocation("save", env, fills, retries, scoreSaved)}

\* claimRewards of closure env, up to await fetchPimlicoGasPrice()
claimRewards_Pimlico(env, fills, retries) ==
    IF ~env.smartAccount \/ env.pendingRewards < 100
    THEN UNCHANGED <<isClaiming, calls>>
    ELSE IF ~env.bundlerClient
    THEN /\ isClaiming' = FALSE
         /\ UNCHANGED calls
    ELSE /\ isClaiming' = TRUE
         /\ calls' = calls \cup
                {Invocation("claim", env, fills, retries, pendingRewards < 100)}

-----------------------------------------------------------------------------
(* Actions of the workflow specification of src/unnamed/part_003           *)

\* what a step of a part_003 workflow leaves alone
fillRest ==
    <<gameRest, gasVars, formVars, smartAccount, bundlerClient,
      isTransferring, autoFillEnabled>>

balances ==
    <<monBalance, mainAccountMonBalance, wmonBalance, mainAccountWmonBalance>>

\* the effect that creates the bundler client when the component mounts
CreateBundler ==
    /\ ~bundlerClient
    /\ bundlerClient' = TRUE
    /\ UNCHANGED <<smartAccount, balances, pendingRewards>>
    /\ UNCHANGED <<gameVars, gasVars, histVars, formVars, opVars, fillVars>>

\* the effect that initializes the smart account once the wallet is
\* connected and the bundler client exists
InitializeSmartAccount_Pimlico ==
    /\ isConnected /\ bundlerClient /\ ~smartAccount
    /\ smartAccount' = TRUE
    /\ UNCHANGED <<bundlerClient, balances, pendingRewards>>
    /\ UNCHANGED <<gameVars, gasVars, histVars, formVars, opVars, fillVars>>

\* a loadAllBalances call of the initialization completes
LoadFillBalances ==
    /\ smartAccount
    /\ \E b \in FillBalances : loadAllBalances(b)
    /\ UNCHANGED <<smartAccount, bundlerClient, pendingRewards>>
    /\ UNCHANGED <<gameVars, gasVars, histVars, formVars, opVars, fillVars>>

\* the auto-fill checkbox of the wallet panel
ToggleAutoFill ==
    /\ isConnected
    /\ autoFillEnabled' = ~autoFillEnabled
    /\ UNCHANGED <<isAutoFilling, retryTimers>>
    /\ UNCHANGED <<gameVars, walletVars, gasVars, histVars, formVars, opVars>>

\* Save Score: rendered when the game is over and its score not saved,
\* disabled while a save is in progress
SaveScoreFill ==
    /\ gameOver /\ ~scoreSaved /\ ~isSavingScore
    /\ ChainRoom
    /\ saveScoreAndAccumulate_Pimlico(Closure, 0, 0)
    /\ CountAddScore
    /\ UNCHANGED <<scoreSaved, pendingTxHash, isClaiming, isAutoFilling,
                   retryTimers, balances, pendingRewards, fillRest>>

\* Claim: rendered from 1 WMON of pending rewards on, disabled while a claim
\* is in progress
ClaimRewardsFill ==
    /\ pendingRewards >= 100 /\ ~isClaiming
    /\ ChainRoom
    /\ claimRewards_Pimlico(Closure, 0, 0)
    /\ CountAddScore
    /\ UNCHANGED <<scoreSaved, pendingTxHash, isSavingScore, isAutoFilling,
                   retryTimers, balances, pendingRewards, fillRest>>

\* a retry timer fires: the handler of the timer's closure runs again
RetryFires ==
    \E t \in retryTimers :
        /\ t.retries < MaxRetries
        /\ retryTimers' = retryTimers \ {t}
        /\ IF t.kind = "save"
           THEN /\ saveScoreAndAccumulate_Pimlico(t.env, t.fills, t.retries + 1)
                /\ UNCHANGED isClaiming
           ELSE /\ claimRewards_Pimlico(t.env, t.fills, t.retries + 1)
                /\ UNCHANGED isSavingScore
        /\ CountAddScore
        /\ UNCHANGED <<scoreSaved, pendingTxHash, isAutoFilling, balances,
                       pendingRewards, fillRest>>

\* fetchPimlicoGasPrice has returned: the gas check, with auto-fill when the
\* smart account is short, then sendUserOperation
FetchedGasOf(c, quote) ==
        /\ c.pc = "fetchGas"
        /\ LET maxFeePerGasWei ==
                   IF quote # 0 THEN quote ELSE gweiToWeiBigInt(c.env.gwei)
               requiredGasMON ==
                   calculateRequiredGasMON(
                       weiBigIntToGweiNumber(maxFeePerGasWei), WORKFLOW_GAS)
           IN  IF c.env.monBalance * 1000 < requiredGasMON
               THEN IF c.env.autoFillEnabled
                    THEN AutoFillCalled(c, "pre", maxFeePerGasWei, requiredGasMON)
                    ELSE Returned(c) /\ UNCHANGED isAutoFilling
               ELSE AutoFilled(c, "pre", maxFeePerGasWei)
                    /\ UNCHANGED isAutoFilling
        /\ CountAddScore
        /\ UNCHANGED <<scoreSaved, pendingTxHash, balances, pendingRewards,
                       fillRest>>

FetchedGas == \E c \in calls, quote \in PimlicoQuotes : FetchedGasOf(c, quote)

\* walletClient.sendTransaction of an auto-fill resolves:
\* setPendingTxHash(txHash), then the wait of 4 s
FillSent ==
    \E c \in calls :
        /\ c.pc = "fillSend"
        /\ pendingTxHash' = <<"fill">>
        /\ Suspended(c, [c EXCEPT !.pc = "fillWait", !.fills = c.fills + 1,
                                  !.required = 0, !.value = 0, !.to = ""])
        /\ CountAddScore
        /\ UNCHANGED <<scoreSaved, isAutoFilling, balances, pendingRewards,
                       fillRest>>

\* walletClient.sendTransaction of an auto-fill rejects: autoFillGasIfNeeded
\* returns false, the caller alerts and returns
FillRejected ==
    \E c \in calls :
        /\ c.pc = "fillSend"
        /\ isAutoFilling' = FALSE
        /\ Returned(c)
        /\ CountAddScore
        /\ UNCHANGED <<scoreSaved, pendingTxHash, balances, pendingRewards,
                       fillRest>>

\* the 4 s are over and loadAllBalances is through: autoFillGasIfNeeded
\* returns true
FillWaited ==
    \E c \in calls, b \in FillBalances :
        /\ c.pc = "fillWait"
        /\ loadAllBalances(b)
        /\ isAutoFilling' = FALSE
        /\ AutoFilled(c, c.path, c.fee)
        /\ CountAddScore
        /\ UNCHANGED <<scoreSaved, pendingTxHash, pendingRewards, fillRest>>

\* sendUserOperation resolves; a save shows the hash, a claim does not
SendResolved ==
    \E c \in calls :
        /\ c.pc = "send"
        /\ pendingTxHash' = (IF c.kind = "save" THEN <<"save">> ELSE pendingTxHash)
        /\ Suspended(c, [c EXCEPT !.pc = "receipt", !.fee = 0])
        /\ CountAddScore
        /\ UNCHANGED <<scoreSaved, isAutoFilling, balances, pendingRewards,
                       fillRest>>

\* sendUserOperation rejects: the catch block; on "insufficient funds" it
\* calls autoFillGasIfNeeded for the gas of the closure's gas options
SendRejectedOf(c, msg) ==
        /\ c.pc = "send"
        /\ IF /\ msg = "insufficient funds"
              /\ c.env.autoFillEnabled /\ ~c.env.isAutoFilling
           THEN AutoFillCalled(c, "catch", 0,
                    calculateRequiredGasMON(c.env.gwei, WORKFLOW_GAS))
           ELSE Returned(c) /\ UNCHANGED isAutoFilling
        /\ CountAddScore
        /\ UNCHANGED <<scoreSaved, pendingTxHash, balances, pendingRewards,
                       fillRest>>

SendRejected == \E c \in calls, msg \in SendErrors : SendRejectedOf(c, msg)

\* waitForUserOperationReceipt resolves: a save sets scoreSaved and clears
\* the hash; then the loads
ReceiptConfirmed ==
    \E c \in calls :
        /\ c.pc = "receipt"
        /\ IF c.kind = "save"
           THEN scoreSaved' = TRUE /\ pendingTxHash' = <<>>
           ELSE UNCHANGED <<scoreSaved, pendingTxHash>>
        /\ Suspended(c, [c EXCEPT !.pc = "reload"])
        /\ CountAddScore
        /\ UNCHANGED <<isAutoFilling, balances, pendingRewards, fillRest>>

\* waitForUserOperationReceipt rejects (timeout or another error): alert,
\* then finally
ReceiptFailed ==
    \E c \in calls :
        /\ c.pc = "receipt"
        /\ Returned(c)
        /\ CountAddScore
        /\ UNCHANGED <<scoreSaved, pendingTxHash, isAutoFilling, balances,
                       pendingRewards, fillRest>>

\* loadAllBalances, loadPlayerStats and loadLeaderboardData after the
\* confirmation are through: alert, then finally
Reloaded ==
    \E c \in calls, b \in FillBalances, r \in LoadedRewards :
        /\ c.pc = "reload"
        /\ loadAllBalances(b)
        /\ pendingRewards' = r
        /\ Returned(c)
        /\ CountAddScore
        /\ UNCHANGED <<scoreSaved, pendingTxHash, isAutoFilling, fillRest>>

NextFill ==
    \/ StartGame
    \/ CountdownRunsOut
    \/ ConnectWallet
    \/ CreateBundler
    \/ InitializeSmartAccount_Pimlico
    \/ LoadFillBalances
    \/ ToggleAutoFill
    \/ SaveScoreFill
    \/ RetryFires
    \/ FetchedGas
    \/ FillSent
    \/ FillRejected
    \/ FillWaited
    \/ SendResolved
    \/ SendRejected
    \/ ReceiptConfirmed
    \/ ReceiptFailed
    \/ Reloaded

SpecFill == Init /\ [][NextFill]_vars

\* the claim workflow of part_003 on its own
NextClaim ==
    \/ ConnectWallet
    \/ CreateBundler
    \/ InitializeSmartAccount_Pimlico
    \/ LoadFillBalances
    \/ LoadPlayerStats
    \/ ToggleAutoFill
    \/ ClaimRewardsFill
    \/ RetryFires
    \/ FetchedGas
    \/ FillSent
    \/ FillRejected
    \/ FillWaited
    \/ SendResolved
    \/ SendRejected
    \/ ReceiptConfirmed
    \/ ReceiptFailed
    \/ Reloaded

SpecClaim == Init /\ [][NextClaim]_vars

-----------------------------------------------------------------------------
(* Claims about the workflows of src/unnamed/part_003                      *)

\* C1: a saveScoreAndAccumulate call made while scoreSaved is true (stale)
\* hands nothing to walletClient.sendTransaction or to
\* bundlerClient.sendUserOperation.
C1_NoSubmissionOnceSaved ==
    \A c \in calls :
        (c.kind = "save" /\ c.stale) => c.pc \notin {"fillSend", "send"}

\* the auto-fill transfers handed to walletClient.sendTransaction
FillTransfers == {c \in calls : c.pc = "fillSend"}

\* requiredGasMON x 1.1 to six decimals, in micro-MON
StatedFillAmount(requiredGasMON) == (requiredGasMON * 11 + 5000) \div 10000

StatedRequiredGasMON(c, quote) ==
    ((IF quote # 0 THEN quote ELSE c.env.gwei) * 250 * 12) \div 10

\* autoFillGasIfNeeded has returned false to call c: the step ends the call
\* with nothing sent and no retry scheduled
ReturnedFalse(c) ==
    /\ calls' = calls \ {c}
    /\ retryTimers' = retryTimers
    /\ IF c.kind = "save" THEN ~isSavingScore' ELSE ~isClaiming'
    /\ pendingTxHash' = pendingTxHash

C7_OneFillOneRetry ==
    /\ \A c \in calls : c.fills <= 1 /\ c.retries <= 1
    /\ \A t \in retryTimers : t.fills <= 1 /\ t.retries <= 1

\* C9: no claimRewards call made while the loaded pendingRewards is below
\* 1 WMON sets isClaiming or goes on to submit anything.
C9_NoClaimBelowMinimum ==
    \A c \in calls : c.kind = "claim" => ~c.stale

-----------------------------------------------------------------------------
(* Further claims about the game loop                                      *)

\* C11: a startGame call made while no wallet is connected leaves
\* gameStarted, gameOver, paused, score, time, objects and scoreSaved as they
\* are, and a game becomes started only in a step that finds a wallet
\* connected.
C11_NoStartWithoutWallet ==
    /\ [][(StartGame /\ ~isConnected) =>
            UNCHANGED <<gameStarted, gameOver, paused, score, time, objects,
                        scoreSaved>>]_vars
    /\ [][(~gameStarted /\ gameStarted') => isConnected]_vars
    /\ [][(StartGame /\ isConnected) => (gameStarted' /\ ~gameOver')]_vars

\* Restart is shown (the game is over) and the wallet is disconnected: the
\* state a refused startGame call is made in and ends in
C11_Witness == gameStarted /\ gameOver /\ ~isConnected /\ score > 0

-----------------------------------------------------------------------------
(* The game loop with enough object ids to fill the game area: the spawn   *)
(* timer firing again and again before the cleanup removes anything.       *)

MaxCapIds == 31      \* object ids of this specification: one more than the cap

CapIds == 1..MaxCapIds

\* the least id no live object has
FreshCapId ==
    CHOOSE i \in CapIds \ ObjectIds(objects) :
        \A j \in CapIds \ ObjectIds(objects) : i <= j

\* the spawn interval fires
SpawnTimerCap ==
    /\ Running(gameStarted, gameOver, paused)
    /\ CapIds \ ObjectIds(objects) # {}
    /\ \E area \in GameAreas :
           objects' = spawnObject(objects, area, FreshCapId)
    /\ UNCHANGED <<score, time, gameOver, gameStarted, paused, clickedObjects,
                   scoreSaved, now, popTimers, isConnected, ignoredBust, swept>>
    /\ UNCHANGED txVars

NextCap ==
    \/ ConnectWallet
    \/ StartGame
    \/ QuitGame
    \/ SpawnTimerCap
    \/ CleanupTimer
    \/ Tick

SpecCap == Init /\ [][NextCap]_vars

\* C12: objects never holds more than 30 entries, and a spawn that finds 30
\* entries drops the first and appends the new object at the end.
C12_AtMostThirtyObjects ==
    /\ [](Len(objects) <= 30)
    /\ [][(SpawnTimerCap /\ Len(objects) = 30 /\ objects' # objects) =>
            /\ Len(objects') = 30
            /\ \A i \in 1..29 : objects'[i] = objects[i + 1]
            /\ objects'[30].id \notin ObjectIds(objects)
            /\ objects'[30].spawnTime = now]_vars

\* the 31st id is in use: a spawn found 30 entries
C12_Witness ==
    /\ Len(objects) = 30
    /\ objects[30].id = 31
    /\ \A i \in 1..29 : objects[i].id = i + 1

-----------------------------------------------------------------------------
(* Claims about the score                                                  *)

\* C13: score increases only in a step that finds the game started, not
\* over and not paused.
C13_ScoreOnlyWhileRunning ==
    [][score' > score => Running(gameStarted, gameOver, paused)]_vars

\* the points the pending pop callbacks of object id add when they fire; an
\* object is clicked only before its first callback removes it, so these
\* are all the points it ever adds
PendingPoints(id) ==
    BUST_POINTS * Cardinality({i \in 1..Len(popTimers) : popTimers[i] = id})

\* C14: one object adds at most 10 points to score in total.
C14_TenPointsPerObject == \A id \in Ids : PendingPoints(id) <= 10

-----------------------------------------------------------------------------
(* Claims about saving the score                                           *)

\* C15: scoreSaved marks the game that is over: it is true only while a
\* started game is over, so a confirmation that arrives after startGame has
\* begun a new game does not mark the new, running game as saved.
C15_SavedMarksTheGameOver == scoreSaved => (gameStarted /\ gameOver)

\* C16: for a finished game at most one addScore user operation is
\* submitted: sendUserOperation accepts at most one between two startGame
\* calls.
C16_OneAddScorePerGame == addScoreOps <= 1

\* the executions of the handler of this kind that are in progress
\* (suspended at an await)
InProgress(kind) == {c \in calls : c.kind = kind}

\* C17: at most one execution of saveScoreAndAccumulate is in progress at
\* any time, the re-invocations by setTimeout included.
C17_OneSaveInProgress == Cardinality(InProgress("save")) <= 1

-----------------------------------------------------------------------------
(* Claims about the gas of a submission                                    *)

\* the user operations a step of part_003 hands to sendUserOperation
FillSubmissions == {c \in calls' \ calls : c.pc = "send"}

\* requiredGasMON of the user operation of call c, in nano-MON
RequiredGasOf(c) ==
    calculateRequiredGasMON(weiBigIntToGweiNumber(c.fee), WORKFLOW_GAS)

\* C18: when autoFillGasIfNeeded has made its transfer and returns true, the
\* loaded MON balance of the smart account is at least requiredGasMON, so
\* the user operation submitted next has its gas covered.
C18_FilledBeforeSubmission ==
    [][FillWaited =>
          \A c \in FillSubmissions : monBalance' * 1000 >= RequiredGasOf(c)]_vars

\* C19: a MON withdrawal from the smart account is submitted only if the
\* amount plus the required gas is at most the loaded MON balance of the
\* smart account (all three in nano-MON).
C19_WithdrawalLeavesGas ==
    [][(/\ TransferFunds
        /\ transferDirection = "toMain" /\ transferType = "MON"
        /\ Submissions # {}) =>
          transferAmount * 1000 + calculateRequiredGas(getCurrentGasOptions)
              <= monBalance * 1000]_vars

-----------------------------------------------------------------------------
(* The transfer modal of src/src/App.jsx                                   *)

\* amounts typed into the amount field, in millionths of a token
TypedAmounts == {2400}

\* the Custom Transfer button of the wallet panel
OpenTransferModal ==
    /\ isConnected
    /\ showTransferModal' = TRUE
    /\ UNCHANGED <<transferAmount, transferTo, transferType, transferDirection>>
    /\ UNCHANGED <<gameVars, walletVars, gasVars, opVars, fillVars, histVars>>

\* the Cancel button of the modal: the form keeps its fields
CancelTransfer ==
    /\ showTransferModal
    /\ showTransferModal' = FALSE
    /\ UNCHANGED <<transferAmount, transferTo, transferType, transferDirection>>
    /\ UNCHANGED <<gameVars, walletVars, gasVars, opVars, fillVars, histVars>>

\* the direction select of the modal: setTransferDirection(e.target.value)
SetTransferDirection(direction) ==
    /\ showTransferModal
    /\ transferDirection' = direction
    /\ UNCHANGED <<showTransferModal, transferAmount, transferTo, transferType>>
    /\ UNCHANGED <<gameVars, walletVars, gasVars, opVars, fillVars, histVars>>

\* the token select of the modal: setTransferType(e.target.value)
SetTransferType(type) ==
    /\ showTransferModal
    /\ transferType' = type
    /\ UNCHANGED <<showTransferModal, transferAmount, transferTo,
                   transferDirection>>
    /\ UNCHANGED <<gameVars, walletVars, gasVars, opVars, fillVars, histVars>>

\* the amount field of the modal: setTransferAmount(e.target.value); the
\* address field is read-only for both directions
SetTransferAmount(amount) ==
    /\ showTransferModal
    /\ transferAmount' = amount
    /\ UNCHANGED <<showTransferModal, transferTo, transferType,
                   transferDirection>>
    /\ UNCHANGED <<gameVars, walletVars, gasVars, opVars, fillVars, histVars>>

\* the wallet panel and the modal, with the transfers in both directions
NextTransfer ==
    \/ ConnectWallet
    \/ InitializeSmartAccount
    \/ LoadAllBalances
    \/ \E type \in {"MON", "WMON"} : QuickTransferToSmart(type)
    \/ \E type \in {"MON", "WMON"} : QuickTransferToMain(type)
    \/ OpenTransferModal
    \/ CancelTransfer
    \/ \E direction \in {"toSmart", "toMain"} : SetTransferDirection(direction)
    \/ \E type \in {"MON", "WMON"} : SetTransferType(type)
    \/ \E amount \in TypedAmounts : SetTransferAmount(amount)
    \/ TransferFunds
    \/ TransferSent
    \/ TransferSubmitted
    \/ TransferConfirmed
    \/ TransferFailed

SpecTransfer == Init /\ [][NextTransfer]_vars

\* the address a transfer of this direction is meant for: smartAccountAddress
\* or the address of the connected main wallet
StatedRecipient(direction) == IF direction = "toSmart" THEN "smart" ELSE "main"

\* C20: every transfer transferFunds submits has the recipient of its
\* direction: the smart account for toSmart, the connected main wallet for
\* toMain.
C20_RecipientOfDirection ==
    [][(TransferFunds /\ calls' # calls) =>
          transferTo = StatedRecipient(transferDirection)]_vars

-----------------------------------------------------------------------------
(* Claims about pausing and about the end of a game                        *)

\* the objects of the list that a step takes out of it
Removed == Range(objects) \ Range(objects')

\* C21: over a step that begins and ends paused no object is spawned, no
\* object leaves the list by expiry (only the pop callback of a click made
\* before the pause takes one out) and time stays; a togglePause step flips
\* paused and leaves score, time and the rest of the game state alone, the
\* list of objects included when the step pauses (when it resumes, the
\* spawn effect that follows may append an object, and no object leaves).
C21_PausedFreezesGame ==
    /\ [][(paused /\ paused') =>
            /\ ObjectIds(objects') \subseteq ObjectIds(objects)
            /\ \A obj \in Removed :
                   /\ popTimers # <<>> /\ obj.id = Head(popTimers)
                   /\ popTimers' = Tail(popTimers)
            /\ time' = time]_vars
    /\ [][TogglePause =>
            /\ paused' = ~paused
            /\ UNCHANGED <<score, time, gameStarted, gameOver, scoreSaved,
                           clickedObjects, popTimers>>
            /\ paused' => objects' = objects
            /\ Removed = {}]_vars

\* the game is paused after the countdown has run, with an object in the
\* list that is past its lifetime
C21_Witness ==
    /\ paused /\ time < INITIAL_TIME
    /\ \E i \in 1..Len(objects) : Age(objects[i]) >= OBJECT_LIFETIME_MS

\* C22: whenever the game is over or not started, objects is empty, and it
\* stays empty until a startGame step has a game running again.
C22_NoObjectsOutsideGame ==
    /\ []((gameOver \/ ~gameStarted) => objects = <<>>)
    /\ [][((gameOver \/ ~gameStarted) /\ objects' # objects) =>
            (StartGame /\ gameStarted' /\ ~gameOver')]_vars

\* the game was quit while the pop callback of a clicked object was pending
C22_Witness == ~gameStarted /\ popTimers # <<>> /\ now > 0

====
